---- MODULE Spec2Model ----
(***************************************************************************)
(* Model of klover-rs/spotify-dl-lib: the batch scheduler                  *)
(* (Downloader::download_tracks), the per-track pipeline                   *)
(* (Downloader::download_track) and the phase poller it spawns.            *)
(*                                                                         *)
(* The pipelines of one batch are futures polled by one task               *)
(* (buffer_unordered), so a pipeline advances from one await to the next   *)
(* only while download_tracks is being polled.  The pollers are spawned    *)
(* tokio tasks and run independently of the batch, on any worker thread.   *)
(***************************************************************************)
EXTENDS Naturals, Integers, Sequences, FiniteSets, TLC

\* Bounds of the model.
MaxTracks == 2
MaxParallel == 2
MaxWrites == 1
MaxPub == 4
MaxArtists == 4

MaxLen == 3

LiveTracks == 1

MaxEvents == 4

MaxServers == 2

MaxCalls == 2

Tracks == 1..MaxTracks

\* enum Action (download.rs:64-79); file_name is the same in every variant.
Phases == <<"Downloading", "Encoding", "Writing", "Downloaded">>

Rank(p) == CHOOSE i \in 1..Len(Phases) : Phases[i] = p

NoCell == [phase |-> "none", downloaded_bytes |-> 0]

Downloading(bytes) == [phase |-> "Downloading", downloaded_bytes |-> bytes]

Encoding == [phase |-> "Encoding", downloaded_bytes |-> 0]

Writing == [phase |-> "Writing", downloaded_bytes |-> 0]

Downloaded == [phase |-> "Downloaded", downloaded_bytes |-> 0]

VARIABLES
    ntracks,     \* tracks.len() of the batch
    parallel,    \* options.parallel
    batch,       \* result of download_tracks: status and the track that ended it
    pc,          \* position of each track's download_track future
    message,     \* the phase cell Arc<Mutex<Action>> of each track
    stop_flag,   \* the Arc<Mutex<bool>> of each track
    msgLock,     \* holder of the phase cell's mutex
    stopLock,    \* holder of the stop flag's mutex
    samples,     \* number of chunks appended to the sample buffer
    sinkEnd,     \* how the accumulate loop ended: Finished event or closed channel
    ppc,         \* position of each track's poller task
    published    \* phases the poller sent on the broadcast channel, in order
                 \* (the first MaxPub messages of the channel)

batchVars == <<ntracks, parallel, batch, pc, message, stop_flag, msgLock, stopLock,
               samples, sinkEnd, ppc, published>>

Batch == 1..ntracks

\* Positions at which a download_track future sits in the in_progress_queue.
Returned == {"queued", "done", "failed", "dropped", "panicked"}

InFlight == {t \in Batch : pc[t] \notin Returned}

Queued == {t \in Batch : pc[t] = "queued"}

(***************************************************************************)
(* Names and output path (download_track lines 112-152 and the helpers).   *)
(* A string is a sequence of characters; a path is a sequence of           *)
(* components (PathBuf::join of a name without separators appends one).    *)
(***************************************************************************)

RECURSIVE Join(_, _)
\* Vec<String>::join(sep)
Join(strs, sep) ==
    IF strs = <<>> THEN <<>>
    ELSE IF Len(strs) = 1 THEN strs[1]
    ELSE strs[1] \o sep \o Join(Tail(strs), sep)

Dash == <<" ", "-", " ">>

CommaSpace == <<",", " ">>

InvalidChars == {"<", ">", ":", "'", "\"", "/", "\\", "|", "?", "*"}

\* char::is_control and char::is_ascii on the characters the model uses.
ControlChars == {"\t", "\n"}

NonAsciiChars == {"é"}

\* clean_file_name without the is_control test.
clean_file_nameKeepsControl(file_name, onWindows) ==
    LET allows_non_ascii == ~onWindows
        Keep(c) == /\ c \notin InvalidChars
                   /\ (c \notin NonAsciiChars \/ allows_non_ascii)
    IN SelectSeq(file_name, Keep)

clean_file_name(file_name, onWindows) ==
    LET allows_non_ascii == ~onWindows
        Keep(c) == /\ c \notin InvalidChars
                   /\ (c \notin NonAsciiChars \/ allows_non_ascii)
                   /\ c \notin ControlChars
    IN SelectSeq(file_name, Keep)

Take(s, n) == IF Len(s) <= n THEN s ELSE SubSeq(s, 1, n)

\* get_file_name without the branch for more than 3 artists.
get_file_nameAllArtists(metadata, base62_id, onWindows) ==
    clean_file_name(
        Join(metadata.artists, CommaSpace)
            \o Dash \o metadata.track_name \o Dash \o base62_id,
        onWindows)

get_file_name(metadata, base62_id, onWindows) ==
    IF Len(metadata.artists) > 3
    THEN clean_file_name(
             Join(Take(metadata.artists, 3), CommaSpace)
                 \o <<",", " ", "a", "n", "d", " ", "o", "t", "h", "e", "r", "s">>
                 \o Dash \o metadata.track_name \o Dash \o base62_id,
             onWindows)
    ELSE clean_file_name(
             Join(metadata.artists, CommaSpace)
                 \o Dash \o metadata.track_name \o Dash \o base62_id,
             onWindows)

\* playlist_name without clean_file_name.
playlist_nameUnclean(playlist, onWindows) ==
    playlist.user \o Dash \o playlist.name \o Dash \o playlist.id

playlist_name(playlist, onWindows) ==
    clean_file_name(playlist.user \o Dash \o playlist.name \o Dash \o playlist.id,
                    onWindows)

AndOthers == <<"a", "n", "d", " ", "o", "t", "h", "e", "r", "s", ".", ".", ".">>

RECURSIVE AlbumArtists(_, _, _)
\* The loop of album_name over album.artists, from index i (0-based).
AlbumArtists(artists, i, artists_string) ==
    IF i >= Len(artists) THEN artists_string
    ELSE IF i >= 3 THEN artists_string \o AndOthers
    ELSE AlbumArtists(artists, i + 1, artists_string \o artists[i + 1] \o CommaSpace)

EndsWith(s, suffix) ==
    /\ Len(s) >= Len(suffix)
    /\ SubSeq(s, Len(s) - Len(suffix) + 1, Len(s)) = suffix

album_name(album, onWindows) ==
    LET looped == AlbumArtists(album.artists, 0, <<>>)
        artists_string == IF EndsWith(looped, CommaSpace)
                          THEN SubSeq(looped, 1, Len(looped) - 2)
                          ELSE looped
    IN clean_file_name(artists_string \o Dash \o album.name \o Dash \o album.id,
                       onWindows)

\* Format::extension of the two formats lib.rs accepts.
Extension(fmt) == IF fmt = "Mp3" THEN <<"m", "p", "3">> ELSE <<"f", "l", "a", "c">>

DotPositions(file) == {i \in 1..Len(file) : file[i] = "."}

Max(S) == CHOOSE i \in S : \A j \in S : j <= i

\* Path::file_stem: the name up to its last '.', the whole name when it has
\* no '.' or only a leading one, and nothing for "..".
FileStem(file) ==
    IF file = <<".", ".">> \/ DotPositions(file) = {} \/ DotPositions(file) = {1}
    THEN file
    ELSE SubSeq(file, 1, Max(DotPositions(file)) - 1)

\* Path::with_extension on the last component of the path.
with_extension(p, ext) ==
    LET file == p[Len(p)]
    IN IF file = <<".", ".">> THEN p
       ELSE [p EXCEPT ![Len(p)] = FileStem(file) \o <<".">> \o ext]

Destination == <<"D">>

VARIABLES
    windows,     \* cfg!(windows) of the build
    format,      \* options.format
    track,       \* the track and what its metadata lookups return
    file_name,   \* the result of get_file_name
    path         \* the output path, <<>> until it is computed

pathVars == <<windows, format, track, file_name, path>>

VARIABLES
    raw,         \* a string handed to clean_file_name
    once,        \* clean_file_name(raw), None until it is computed
    twice        \* clean_file_name of that result, None until it is computed

cleanVars == <<raw, once, twice>>

VARIABLES
    stateLock    \* the mutex of the shared DownloadState: "free" or "socket"

socketVars == <<stateLock>>

VARIABLES
    arrived,     \* the events the sink sends on its channel, in order
    channel,     \* the events of `arrived` not received yet
    buffer,      \* samples: Vec<i32>
    cell,        \* the phase cell of the track
    handed,      \* the samples handed to the encoder, None before that
    loopPc       \* "recv", "enc_store", "encode" or "done"

loopVars == <<arrived, channel, buffer, cell, handed, loopPc>>

VARIABLES
    STOP_FLAG,   \* the process-wide static of lib.rs
    server,      \* per SpotifyDownloader, the state of the server task it spawned
    call,        \* per download_tracks call: "none", "running", "ok" or "err"
    seen         \* per download_tracks call, the servers created before it started

serverVars == <<STOP_FLAG, server, call, seen>>

\* Everything but the state of the batch, but the path, but the strings
\* cleaned, but the DownloadState lock, but the accumulate loop, and but
\* the servers.
offBatch == <<pathVars, cleanVars, loopVars, serverVars>>

offPath == <<batchVars, cleanVars, socketVars, loopVars, serverVars>>

offClean == <<batchVars, pathVars, socketVars, loopVars, serverVars>>

offSocket == <<batchVars, pathVars, cleanVars, loopVars, serverVars>>

offLoop == <<batchVars, pathVars, cleanVars, socketVars, serverVars>>

offServer == <<batchVars, pathVars, cleanVars, socketVars, loopVars>>

vars == <<batchVars, pathVars, cleanVars, socketVars, loopVars, serverVars>>

RECURSIVE SumLen(_, _)
SumLen(f, S) ==
    IF S = {} THEN 0
    ELSE LET t == CHOOSE u \in S : TRUE IN Len(f[t]) + SumLen(f, S \ {t})

\* Number of recorded messages of the broadcast channel.
Sent == SumLen(published, Tracks)

None == [some |-> FALSE]

NoTrack == [id |-> <<>>, metadata |-> [artists |-> <<>>, track_name |-> <<>>],
            playlist |-> None, album |-> None]

\* No path is being computed.
PathIdle ==
    /\ windows = FALSE
    /\ format = "Mp3"
    /\ track = NoTrack
    /\ file_name = <<>>
    /\ path = <<>>

\* clean_file_name is not being exercised.
CleanIdle ==
    /\ raw = <<>>
    /\ once = None
    /\ twice = None

\* No accumulate loop is being followed.
LoopIdle ==
    /\ arrived = <<>>
    /\ channel = <<>>
    /\ buffer = <<>>
    /\ cell = NoCell
    /\ handed = None
    /\ loopPc = "done"

Servers == 1..MaxServers

Calls == 1..MaxCalls

\* No SpotifyDownloader has been created.
ServerIdle ==
    /\ STOP_FLAG = FALSE
    /\ server = [s \in Servers |-> "none"]
    /\ call = [b \in Calls |-> "none"]
    /\ seen = [b \in Calls |-> {}]

\* Everything outside the batch is at rest.
Rest ==
    /\ CleanIdle
    /\ LoopIdle
    /\ ServerIdle
    /\ stateLock = "free"

Init ==
    /\ PathIdle
    /\ Rest
    /\ ntracks \in 0..MaxTracks
    /\ parallel \in 0..MaxParallel
    /\ batch = [status |-> "running", by |-> 0]
    /\ pc = [t \in Tracks |-> "queued"]
    /\ message = [t \in Tracks |-> NoCell]
    /\ stop_flag = [t \in Tracks |-> FALSE]
    /\ msgLock = [t \in Tracks |-> "free"]
    /\ stopLock = [t \in Tracks |-> "free"]
    /\ samples = [t \in Tracks |-> 0]
    /\ sinkEnd = [t \in Tracks |-> "open"]
    /\ ppc = [t \in Tracks |-> "none"]
    /\ published = [t \in Tracks |-> <<>>]

(***************************************************************************)
(* Batch scheduler.                                                        *)
(***************************************************************************)

\* CanAdmit with the bound off by one: the queue is filled while it holds
\* `parallel` futures.
CanAdmitOffByOne ==
    /\ batch.status = "running"
    /\ Queued # {}
    /\ Cardinality(InFlight) <= parallel

\* BufferUnordered fills the in_progress_queue from the track stream while
\* it holds fewer than `parallel` futures, before it polls any of them.
CanAdmit ==
    /\ batch.status = "running"
    /\ Queued # {}
    /\ Cardinality(InFlight) < parallel

Admit(t) ==
    /\ CanAdmit
    /\ t \in Queued
    /\ \A u \in Queued : t <= u
    /\ pc' = [pc EXCEPT ![t] = "metadata"]
    /\ UNCHANGED <<offBatch, socketVars, ntracks, parallel, batch, message, stop_flag, msgLock, stopLock,
                   samples, sinkEnd, ppc, published>>

\* A pipeline is polled only by download_tracks, after the queue is filled.
Polled(t, at) ==
    /\ batch.status = "running"
    /\ ~CanAdmit
    /\ t \in Batch
    /\ pc[t] = at

\* The return of download_tracks with the futures in flight left to run.
DropInFlightKeeps(t, end) ==
    /\ pc' = [pc EXCEPT ![t] = end]
    /\ UNCHANGED <<msgLock, stopLock>>

\* Dropping the stream drops every future in flight and the guards it holds.
DropInFlight(t, end) ==
    /\ pc' = [u \in Tracks |-> IF u = t THEN end
                               ELSE IF u \in InFlight THEN "dropped" ELSE pc[u]]
    /\ msgLock' = [u \in Tracks |-> IF msgLock[u] = "pipeline" THEN "free" ELSE msgLock[u]]
    /\ stopLock' = [u \in Tracks |-> IF stopLock[u] = "pipeline" THEN "free" ELSE stopLock[u]]

\* ReturnErr as it would be with collect in place of try_collect: the error
\* is kept and the stream goes on.
ReturnErrContinues(t) ==
    /\ pc' = [pc EXCEPT ![t] = "failed"]
    /\ UNCHANGED <<batch, msgLock, stopLock>>

\* `?` in download_track, then try_collect's `?` in download_tracks.
ReturnErr(t) ==
    /\ batch' = [status |-> "err", by |-> t]
    /\ DropInFlight(t, "failed")

\* unwrap() on a failed lookup unwinds through download_tracks.
Panic(t) ==
    /\ batch' = [status |-> "panic", by |-> t]
    /\ DropInFlight(t, "panicked")

\* BatchOk without the wait for the queue: complete as soon as the stream
\* is exhausted.
BatchOkEarly ==
    /\ batch.status = "running"
    /\ Queued = {}
    /\ 0 < parallel
    /\ batch' = [status |-> "ok", by |-> 0]
    /\ UNCHANGED <<offBatch, socketVars, ntracks, parallel, pc, message, stop_flag, msgLock, stopLock,
                   samples, sinkEnd, ppc, published>>

\* The stream is exhausted and the queue is empty: try_collect is complete.
BatchOk ==
    /\ batch.status = "running"
    /\ Queued = {}
    /\ InFlight = {}
    /\ Cardinality(InFlight) < parallel
    /\ batch' = [status |-> "ok", by |-> 0]
    /\ UNCHANGED <<offBatch, socketVars, ntracks, parallel, pc, message, stop_flag, msgLock, stopLock,
                   samples, sinkEnd, ppc, published>>

(***************************************************************************)
(* Track pipeline.                                                         *)
(***************************************************************************)

Goto(t, to) == pc' = [pc EXCEPT ![t] = to]

TrackMetadata(t) ==
    /\ Polled(t, "metadata")
    /\ \/ /\ Goto(t, "file_name")
          /\ UNCHANGED <<batch, msgLock, stopLock>>
       \/ ReturnErr(t)
    /\ UNCHANGED <<offBatch, socketVars, ntracks, parallel, message, stop_flag, samples, sinkEnd,
                   ppc, published>>

GetFileName(t) ==
    /\ Polled(t, "file_name")
    /\ \/ /\ Goto(t, "path")
          /\ UNCHANGED <<batch, msgLock, stopLock>>
       \/ Panic(t)
    /\ UNCHANGED <<offBatch, socketVars, ntracks, parallel, message, stop_flag, samples, sinkEnd,
                   ppc, published>>

ResolvePath(t) ==
    /\ Polled(t, "path")
    /\ \/ /\ Goto(t, "cell")
          /\ UNCHANGED <<batch, msgLock, stopLock>>
       \/ Panic(t)
    /\ UNCHANGED <<offBatch, socketVars, ntracks, parallel, message, stop_flag, samples, sinkEnd,
                   ppc, published>>

CreateCell(t) ==
    /\ Polled(t, "cell")
    /\ message' = [message EXCEPT ![t] = Downloading(0)]
    /\ stop_flag' = [stop_flag EXCEPT ![t] = FALSE]
    /\ Goto(t, "spawn")
    /\ UNCHANGED <<offBatch, socketVars, ntracks, parallel, batch, msgLock, stopLock, samples, sinkEnd,
                   ppc, published>>

\* The sender is cloned under the DownloadState mutex, then the poller is
\* spawned.
SpawnPoller(t) ==
    /\ Polled(t, "spawn")
    /\ stateLock = "free"
    /\ ppc' = [ppc EXCEPT ![t] = "publish"]
    /\ Goto(t, "recv")
    /\ UNCHANGED <<offBatch, socketVars, ntracks, parallel, batch, message, stop_flag, msgLock, stopLock,
                   samples, sinkEnd, published>>

RecvWrite(t) ==
    /\ Polled(t, "recv")
    /\ samples[t] < MaxWrites
    /\ Goto(t, "dl_store")
    /\ UNCHANGED <<offBatch, socketVars, ntracks, parallel, batch, message, stop_flag, msgLock, stopLock,
                   samples, sinkEnd, ppc, published>>

RecvFinished(t) ==
    /\ Polled(t, "recv")
    /\ sinkEnd' = [sinkEnd EXCEPT ![t] = "finished"]
    /\ Goto(t, "enc_store")
    /\ UNCHANGED <<offBatch, socketVars, ntracks, parallel, batch, message, stop_flag, msgLock, stopLock,
                   samples, ppc, published>>

RecvClosed(t) ==
    /\ Polled(t, "recv")
    /\ sinkEnd' = [sinkEnd EXCEPT ![t] = "closed"]
    /\ Goto(t, "enc_store")
    /\ UNCHANGED <<offBatch, socketVars, ntracks, parallel, batch, message, stop_flag, msgLock, stopLock,
                   samples, ppc, published>>

\* A critical section of the pipeline that holds the phase cell's mutex
\* across no await: message.lock().await, *msg = value, guard dropped.
StoreMessage(t, at, value, to) ==
    /\ Polled(t, at)
    /\ msgLock[t] = "free"
    /\ message' = [message EXCEPT ![t] = value]
    /\ Goto(t, to)

StoreDownloading(t) ==
    /\ StoreMessage(t, "dl_store", Downloading(samples[t] + 1), "recv")
    /\ samples' = [samples EXCEPT ![t] = @ + 1]
    /\ UNCHANGED <<offBatch, socketVars, ntracks, parallel, batch, stop_flag, msgLock, stopLock, sinkEnd,
                   ppc, published>>

\* StoreEncoding with the wrong variant: Writing is stored instead.
StoreEncodingSkips(t) ==
    /\ StoreMessage(t, "enc_store", Writing, "encode")
    /\ UNCHANGED <<offBatch, socketVars, ntracks, parallel, batch, stop_flag, msgLock, stopLock, samples,
                   sinkEnd, ppc, published>>

StoreEncoding(t) ==
    /\ StoreMessage(t, "enc_store", Encoding, "encode")
    /\ UNCHANGED <<offBatch, socketVars, ntracks, parallel, batch, stop_flag, msgLock, stopLock, samples,
                   sinkEnd, ppc, published>>

Encode(t) ==
    /\ Polled(t, "encode")
    /\ \/ /\ Goto(t, "wr_store")
          /\ UNCHANGED <<batch, msgLock, stopLock>>
       \/ ReturnErr(t)
    /\ UNCHANGED <<offBatch, socketVars, ntracks, parallel, message, stop_flag, samples, sinkEnd,
                   ppc, published>>

\* StoreWriting with the wrong variant: Downloading is stored again.
StoreWritingStale(t) ==
    /\ StoreMessage(t, "wr_store", Downloading(samples[t]), "write_to_file")
    /\ UNCHANGED <<offBatch, socketVars, ntracks, parallel, batch, stop_flag, msgLock, stopLock, samples,
                   sinkEnd, ppc, published>>

StoreWriting(t) ==
    /\ StoreMessage(t, "wr_store", Writing, "write_to_file")
    /\ UNCHANGED <<offBatch, socketVars, ntracks, parallel, batch, stop_flag, msgLock, stopLock, samples,
                   sinkEnd, ppc, published>>

WriteToFile(t) ==
    /\ Polled(t, "write_to_file")
    /\ \/ /\ Goto(t, "fin_lock_msg")
          /\ UNCHANGED <<batch, msgLock, stopLock>>
       \/ ReturnErr(t)
    /\ UNCHANGED <<offBatch, socketVars, ntracks, parallel, message, stop_flag, samples, sinkEnd,
                   ppc, published>>

\* The final critical section holds the phase cell's mutex while it awaits
\* the stop flag's mutex.
FinishLockMessage(t) ==
    /\ Polled(t, "fin_lock_msg")
    /\ msgLock[t] = "free"
    /\ msgLock' = [msgLock EXCEPT ![t] = "pipeline"]
    /\ Goto(t, "fin_lock_stop")
    /\ UNCHANGED <<offBatch, socketVars, ntracks, parallel, batch, message, stop_flag, stopLock,
                   samples, sinkEnd, ppc, published>>

\* FinishStore without line 268: the flag is set, the cell is left as it is.
FinishStoreFlagOnly(t) ==
    /\ Polled(t, "fin_lock_stop")
    /\ stopLock[t] = "free"
    /\ stop_flag' = [stop_flag EXCEPT ![t] = TRUE]
    /\ msgLock' = [msgLock EXCEPT ![t] = "free"]
    /\ Goto(t, "done")
    /\ UNCHANGED <<offBatch, socketVars, ntracks, parallel, batch, message, stopLock, samples, sinkEnd,
                   ppc, published>>

FinishStore(t) ==
    /\ Polled(t, "fin_lock_stop")
    /\ stopLock[t] = "free"
    /\ message' = [message EXCEPT ![t] = Downloaded]
    /\ stop_flag' = [stop_flag EXCEPT ![t] = TRUE]
    /\ msgLock' = [msgLock EXCEPT ![t] = "free"]
    /\ Goto(t, "done")
    /\ UNCHANGED <<offBatch, socketVars, ntracks, parallel, batch, stopLock, samples, sinkEnd, ppc, published>>

(***************************************************************************)
(* Phase poller: the task spawned by download_track.                       *)
(***************************************************************************)

\* One pass of the loop up to the send: the phase cell is cloned under its
\* mutex and the clone is sent on the broadcast channel (send does not wait).
\* Only the first MaxPub messages sent on the channel are recorded.
PollerPublish(t) ==
    /\ t \in Batch
    /\ ppc[t] = "publish"
    /\ msgLock[t] = "free"
    /\ published' = IF Sent < MaxPub
                    THEN [published EXCEPT ![t] = Append(@, message[t].phase)]
                    ELSE published
    /\ ppc' = [ppc EXCEPT ![t] = "lock_stop"]
    /\ UNCHANGED <<offBatch, socketVars, ntracks, parallel, batch, pc, message, stop_flag, msgLock, stopLock,
                   samples, sinkEnd>>

PollerLockStop(t) ==
    /\ t \in Batch
    /\ ppc[t] = "lock_stop"
    /\ stopLock[t] = "free"
    /\ stopLock' = [stopLock EXCEPT ![t] = "poller"]
    /\ ppc' = [ppc EXCEPT ![t] = "check"]
    /\ UNCHANGED <<offBatch, socketVars, ntracks, parallel, batch, pc, message, stop_flag, msgLock,
                   samples, sinkEnd, published>>

\* The stop check without the break: the poller always starts a next pass.
PollerCheckNeverBreaks(t) ==
    /\ t \in Batch
    /\ ppc[t] = "check"
    /\ stopLock' = [stopLock EXCEPT ![t] = "free"]
    /\ ppc' = [ppc EXCEPT ![t] = "publish"]
    /\ UNCHANGED <<offBatch, socketVars, ntracks, parallel, batch, pc, message, stop_flag, msgLock,
                   samples, sinkEnd, published>>

\* The stop check with the guard of the stop flag kept into the next pass.
PollerCheckKeepsGuard(t) ==
    /\ t \in Batch
    /\ ppc[t] = "check"
    /\ stopLock' = [stopLock EXCEPT ![t] = IF stop_flag[t] THEN "free" ELSE "poller"]
    /\ ppc' = [ppc EXCEPT ![t] = IF stop_flag[t] THEN "exited" ELSE "publish"]
    /\ UNCHANGED <<offBatch, socketVars, ntracks, parallel, batch, pc, message, stop_flag, msgLock,
                   samples, sinkEnd, published>>

\* if *stop_flag { break }, else sleep and start the next pass.
PollerCheck(t) ==
    /\ t \in Batch
    /\ ppc[t] = "check"
    /\ stopLock' = [stopLock EXCEPT ![t] = "free"]
    /\ ppc' = [ppc EXCEPT ![t] = IF stop_flag[t] THEN "exited" ELSE "publish"]
    /\ UNCHANGED <<offBatch, socketVars, ntracks, parallel, batch, pc, message, stop_flag, msgLock,
                   samples, sinkEnd, published>>

Next ==
    \/ BatchOk
    \/ \E t \in Tracks :
        \/ Admit(t)
        \/ TrackMetadata(t)
        \/ GetFileName(t)
        \/ ResolvePath(t)
        \/ CreateCell(t)
        \/ SpawnPoller(t)
        \/ RecvWrite(t)
        \/ RecvFinished(t)
        \/ RecvClosed(t)
        \/ StoreDownloading(t)
        \/ StoreEncoding(t)
        \/ Encode(t)
        \/ StoreWriting(t)
        \/ WriteToFile(t)
        \/ FinishLockMessage(t)
        \/ FinishStore(t)
        \/ PollerPublish(t)
        \/ PollerLockStop(t)
        \/ PollerCheck(t)

Spec == Init /\ [][Next]_vars

(***************************************************************************)
(* Batches of LiveTracks tracks next to a websocket client, with the       *)
(* scheduling of the tokio runtime: every spawned task and the awaited     *)
(* batch future keep being polled, and a tokio Mutex is granted in FIFO    *)
(* order, so a task that waits for a mutex gets it once it is released.    *)
(***************************************************************************)

\* handle_socket up to the lock of the DownloadState.
HandleSocketLock ==
    /\ stateLock = "free"
    /\ stateLock' = "socket"
    /\ UNCHANGED offSocket

\* sender.subscribe() under the guard; the guard is dropped with the statement.
HandleSocketSubscribe ==
    /\ stateLock = "socket"
    /\ stateLock' = "free"
    /\ UNCHANGED offSocket

\* The steps of the pipeline of track t.
Pipeline(t) ==
    \/ TrackMetadata(t)
    \/ GetFileName(t)
    \/ ResolvePath(t)
    \/ CreateCell(t)
    \/ SpawnPoller(t)
    \/ RecvWrite(t)
    \/ RecvFinished(t)
    \/ RecvClosed(t)
    \/ StoreDownloading(t)
    \/ StoreEncoding(t)
    \/ Encode(t)
    \/ StoreWriting(t)
    \/ WriteToFile(t)
    \/ FinishLockMessage(t)
    \/ FinishStore(t)

LiveInit ==
    /\ Init
    /\ ntracks \in 1..LiveTracks
    /\ parallel \in 1..LiveTracks

LiveNext ==
    \/ Next
    \/ HandleSocketLock
    \/ HandleSocketSubscribe

LiveSpec ==
    /\ LiveInit
    /\ [][LiveNext]_vars
    /\ WF_vars(BatchOk)
    /\ WF_vars(HandleSocketSubscribe)
    /\ \A t \in Tracks :
           /\ WF_vars(Admit(t))
           /\ SF_vars(Pipeline(t))
           /\ WF_vars(PollerPublish(t))
           /\ WF_vars(PollerLockStop(t))
           /\ WF_vars(PollerCheck(t))

(***************************************************************************)
(* The output path of one track, for every combination of lookup results.  *)
(***************************************************************************)

ArtistNames == {<<"A">>, <<"B">>, <<"C">>, <<"D">>, <<"E", "é">>}

ArtistLists == UNION {[1..n -> ArtistNames] : n \in 0..MaxArtists}

Titles == {<<"T">>, <<"N", "o", ".", "1", "?">>}

Ids == {<<"x", "y", "z">>}

Playlists ==
    {None,
     [some |-> TRUE, name |-> <<"M", "y", " ", "M", "i", "x">>, user |-> <<"u">>,
      id |-> <<"p", "1">>],
     [some |-> TRUE, name |-> <<"a", "/", "b">>, user |-> <<"v", ".">>,
      id |-> <<"p", "2">>]}

Albums ==
    {None,
     [some |-> TRUE, name |-> <<"L", "P">>, artists |-> << <<"A">> >>,
      id |-> <<"a", "1">>],
     [some |-> TRUE, name |-> <<"V", ":", "A">>,
      artists |-> << <<"A">>, <<"B", "é">>, <<"C">>, <<"D", "r", ".">> >>,
      id |-> <<"a", "2">>]}

\* No batch is running.
BatchIdle ==
    /\ ntracks = 0
    /\ parallel = 0
    /\ batch = [status |-> "running", by |-> 0]
    /\ pc = [t \in Tracks |-> "queued"]
    /\ message = [t \in Tracks |-> NoCell]
    /\ stop_flag = [t \in Tracks |-> FALSE]
    /\ msgLock = [t \in Tracks |-> "free"]
    /\ stopLock = [t \in Tracks |-> "free"]
    /\ samples = [t \in Tracks |-> 0]
    /\ sinkEnd = [t \in Tracks |-> "open"]
    /\ ppc = [t \in Tracks |-> "none"]
    /\ published = [t \in Tracks |-> <<>>]

PathInit ==
    /\ BatchIdle
    /\ Rest
    /\ windows \in BOOLEAN
    /\ format \in {"Mp3", "Flac"}
    /\ track \in [id : Ids,
                  metadata : [artists : ArtistLists, track_name : Titles],
                  playlist : Playlists,
                  album : Albums]
    /\ file_name = <<>>
    /\ path = <<>>

\* destination.join(dir).join(file_name).with_extension(format.extension())
Nested(dir, file) ==
    with_extension(<<Destination, dir, file>>, Extension(format))

PathInPlaylist ==
    /\ path = <<>>
    /\ track.playlist.some
    /\ file_name' = get_file_name(track.metadata, track.id, windows)
    /\ path' = Nested(playlist_name(track.playlist, windows), file_name')
    /\ UNCHANGED <<offPath, windows, format, track>>

PathInAlbum ==
    /\ path = <<>>
    /\ ~track.playlist.some
    /\ track.album.some
    /\ file_name' = get_file_name(track.metadata, track.id, windows)
    /\ path' = Nested(album_name(track.album, windows), file_name')
    /\ UNCHANGED <<offPath, windows, format, track>>

PathInDestination ==
    /\ path = <<>>
    /\ ~track.playlist.some
    /\ ~track.album.some
    /\ file_name' = get_file_name(track.metadata, track.id, windows)
    /\ path' = with_extension(<<Destination, file_name'>>, Extension(format))
    /\ UNCHANGED <<offPath, windows, format, track>>

PathNext ==
    \/ PathInPlaylist
    \/ PathInAlbum
    \/ PathInDestination

PathSpec == PathInit /\ [][PathNext]_vars

(***************************************************************************)
(* clean_file_name applied to its own result.                              *)
(***************************************************************************)

Alphabet == InvalidChars \cup ControlChars \cup NonAsciiChars \cup {"a", " "}

Strings == UNION {[1..n -> Alphabet] : n \in 0..MaxLen}

Some(value) == [some |-> TRUE, value |-> value]

CleanInit ==
    /\ BatchIdle
    /\ LoopIdle
    /\ ServerIdle
    /\ stateLock = "free"
    /\ windows \in BOOLEAN
    /\ format = "Mp3"
    /\ track = NoTrack
    /\ file_name = <<>>
    /\ path = <<>>
    /\ raw \in Strings
    /\ once = None
    /\ twice = None

CleanOnce ==
    /\ once = None
    /\ once' = Some(clean_file_name(raw, windows))
    /\ UNCHANGED <<offClean, raw, twice>>

CleanAgain ==
    /\ once # None
    /\ twice = None
    /\ twice' = Some(clean_file_name(once.value, windows))
    /\ UNCHANGED <<offClean, raw, once>>

CleanNext ==
    \/ CleanOnce
    \/ CleanAgain

CleanSpec == CleanInit /\ [][CleanNext]_vars

(***************************************************************************)
(* The accumulate loop of download_track on a given sequence of sink       *)
(* events.                                                                 *)
(***************************************************************************)

Write(bytes, content) == [type |-> "Write", bytes |-> bytes, content |-> content]

Finished == [type |-> "Finished"]

SinkEvents == {Write(1, <<1>>), Write(3, <<2, 3>>), Write(3, <<>>), Finished}

LoopInit ==
    /\ BatchIdle
    /\ PathIdle
    /\ CleanIdle
    /\ ServerIdle
    /\ stateLock = "free"
    /\ arrived \in UNION {[1..n -> SinkEvents] : n \in 0..MaxEvents}
    /\ channel = arrived
    /\ buffer = <<>>
    /\ cell = Downloading(0)
    /\ handed = None
    /\ loopPc = "recv"

\* SinkEvent::Write with the chunk put in front of the samples.
LoopWritePrepends ==
    /\ loopPc = "recv"
    /\ channel # <<>>
    /\ Head(channel).type = "Write"
    /\ cell' = Downloading(Head(channel).bytes)
    /\ buffer' = Head(channel).content \o buffer
    /\ channel' = Tail(channel)
    /\ UNCHANGED <<offLoop, arrived, handed, loopPc>>

\* SinkEvent::Write: the cell is updated and the chunk is appended.
LoopWrite ==
    /\ loopPc = "recv"
    /\ channel # <<>>
    /\ Head(channel).type = "Write"
    /\ cell' = Downloading(Head(channel).bytes)
    /\ buffer' = buffer \o Head(channel).content
    /\ channel' = Tail(channel)
    /\ UNCHANGED <<offLoop, arrived, handed, loopPc>>

\* SinkEvent::Finished: break.
LoopFinished ==
    /\ loopPc = "recv"
    /\ channel # <<>>
    /\ Head(channel).type = "Finished"
    /\ channel' = Tail(channel)
    /\ loopPc' = "enc_store"
    /\ UNCHANGED <<offLoop, arrived, buffer, cell, handed>>

\* recv() returns None: the channel is closed and empty.
LoopClosed ==
    /\ loopPc = "recv"
    /\ channel = <<>>
    /\ loopPc' = "enc_store"
    /\ UNCHANGED <<offLoop, arrived, channel, buffer, cell, handed>>

LoopStoreEncoding ==
    /\ loopPc = "enc_store"
    /\ cell' = Encoding
    /\ loopPc' = "encode"
    /\ UNCHANGED <<offLoop, arrived, channel, buffer, handed>>

\* Samples::new(samples, ...) is passed to the encoder.
LoopEncode ==
    /\ loopPc = "encode"
    /\ handed' = Some(buffer)
    /\ loopPc' = "done"
    /\ UNCHANGED <<offLoop, arrived, channel, buffer, cell>>

LoopNext ==
    \/ LoopWrite
    \/ LoopFinished
    \/ LoopClosed
    \/ LoopStoreEncoding
    \/ LoopEncode

LoopSpec == LoopInit /\ [][LoopNext]_vars

(***************************************************************************)
(* SpotifyDownloader::new and SpotifyDownloader::download_tracks calls in  *)
(* one process: the server tasks and the static STOP_FLAG.                 *)
(***************************************************************************)

ServerInit ==
    /\ BatchIdle
    /\ PathIdle
    /\ Rest

\* SpotifyDownloader::new: the server task is spawned and new returns.
New(s) ==
    /\ server[s] = "none"
    /\ \A u \in Servers : u < s => server[u] # "none"
    /\ server' = [server EXCEPT ![s] = "spawned"]
    /\ UNCHANGED <<offServer, STOP_FLAG, call, seen>>

\* TcpListener::bind("127.0.0.1:4040").await.unwrap(): the task panics when
\* another server of the process holds the port; otherwise axum::serve runs
\* with shutdown_signal().
Bind(s) ==
    /\ server[s] = "spawned"
    /\ server' = [server EXCEPT ![s] =
                      IF \E u \in Servers : server[u] = "serving"
                      THEN "bind_panicked" ELSE "serving"]
    /\ UNCHANGED <<offServer, STOP_FLAG, call, seen>>

\* The pass of shutdown_signal that finds STOP_FLAG true: the flag is reset,
\* the loop breaks and the server shuts down. (A pass that finds it false
\* sleeps 100 ms and changes nothing.)
ShutdownSignal(s) ==
    /\ server[s] = "serving"
    /\ STOP_FLAG
    /\ STOP_FLAG' = FALSE
    /\ server' = [server EXCEPT ![s] = "shutdown"]
    /\ UNCHANGED <<offServer, call, seen>>

\* download_tracks is called on the downloader s, which new has returned.
DownloadStart(b, s) ==
    /\ call[b] = "none"
    /\ \A c \in Calls : c < b => call[c] # "none"
    /\ server[s] # "none"
    /\ call' = [call EXCEPT ![b] = "running"]
    /\ seen' = [seen EXCEPT ![b] = {u \in Servers : server[u] # "none"}]
    /\ UNCHANGED <<offServer, STOP_FLAG, server>>

\* get_tracks or the batch returns Err through `?`: STOP_FLAG is not touched.
DownloadErr(b) ==
    /\ call[b] = "running"
    /\ call' = [call EXCEPT ![b] = "err"]
    /\ UNCHANGED <<offServer, STOP_FLAG, server, seen>>

\* The batch returned Ok: *STOP_FLAG.lock().await = true, then Ok(()).
DownloadOk(b) ==
    /\ call[b] = "running"
    /\ STOP_FLAG' = TRUE
    /\ call' = [call EXCEPT ![b] = "ok"]
    /\ UNCHANGED <<offServer, server, seen>>

ServerNext ==
    \/ \E s \in Servers : New(s) \/ Bind(s) \/ ShutdownSignal(s)
    \/ \E b \in Calls :
           \/ \E s \in Servers : DownloadStart(b, s)
           \/ DownloadErr(b)
           \/ DownloadOk(b)

ServerSpec == ServerInit /\ [][ServerNext]_vars

(***************************************************************************)
(* Properties.                                                             *)
(***************************************************************************)

\* C1: in a batch of N tracks with parallel = P, 1 <= P < N, the number of
\* pipelines that have been started and have not returned is at most P.
ActiveAtMostParallel ==
    (1 <= parallel /\ parallel < ntracks) => Cardinality(InFlight) <= parallel

\* One pipeline runs at the bound P = 1 while the second track waits.
ActiveAtBound ==
    /\ parallel = 1
    /\ ntracks = 2
    /\ pc[1] = "recv"
    /\ pc[2] = "queued"

\* C2: a phase cell starts as Downloading with downloaded_bytes = 0; every
\* later change keeps it in Downloading or moves it to the next phase of
\* Downloading -> Encoding -> Writing -> Downloaded, so it never goes back,
\* never skips a phase and never changes once it is Downloaded.
PhaseCellForward ==
    [][\A t \in Tracks :
         message'[t] # message[t] =>
             IF message[t] = NoCell
             THEN message'[t] = Downloading(0)
             ELSE /\ message'[t] # NoCell
                  /\ \/ /\ message[t].phase = "Downloading"
                        /\ message'[t].phase = "Downloading"
                     \/ Rank(message'[t].phase) = Rank(message[t].phase) + 1]_vars

\* A cell walked the whole chain, with a progress update on the way.
CellWalkedChain ==
    \E t \in Batch : message[t] = Downloaded /\ samples[t] >= 1

IsExactChain(s) ==
    /\ Len(s) >= 3
    /\ s[Len(s)] = "Downloaded"
    /\ s[Len(s) - 1] = "Writing"
    /\ s[Len(s) - 2] = "Encoding"
    /\ \A i \in 1..(Len(s) - 3) : s[i] = "Downloading"

\* C3 as stated: when a pipeline has completed and its poller has exited,
\* the messages the poller published are Downloading*, Encoding, Writing,
\* Downloaded, each of the last three exactly once (on the runs whose
\* messages are all recorded).
PublishedExactChain ==
    \A t \in Batch :
        (pc[t] = "done" /\ ppc[t] = "exited" /\ Sent < MaxPub) =>
            IsExactChain(published[t])

\* C3 as amended: the messages a poller publishes are in chain order (a
\* later message never carries an earlier phase than the one before it).
PublishedInChainOrder ==
    \A t \in Batch :
        \A i, j \in 1..Len(published[t]) :
            i < j => Rank(published[t][i]) <= Rank(published[t][j])

\* A completed track whose poller never published Encoding.
PublishedSkipsPhase ==
    \E t \in Batch :
        /\ pc[t] = "done"
        /\ ppc[t] = "exited"
        /\ published[t] = <<"Downloading", "Writing", "Downloaded">>

Failed == {k \in Batch : pc[k] = "failed"}

\* C4: once the pipeline at position k has returned an error, no queued
\* track is started any more, and the batch result is that error.
FailFast ==
    /\ [](Failed # {} => /\ batch.status = "err"
                         /\ Failed = {batch.by})
    /\ [][Failed # {} => \A t \in Batch : pc[t] = "queued" => pc'[t] = "queued"]_vars

\* A pipeline failed while a later track was still queued.
FailedBeforeLaterTrack ==
    \E k, t \in Batch : k < t /\ pc[k] = "failed" /\ pc[t] = "queued"

\* C5: download_tracks returns Ok only when every track of the batch was
\* admitted and its pipeline returned Ok: its cell is Downloaded and its
\* stop flag is set.
OkOnlyWhenAllDownloaded ==
    batch.status = "ok" =>
        \A t \in Batch : /\ pc[t] = "done"
                         /\ message[t] = Downloaded
                         /\ stop_flag[t]

\* A batch of two tracks returned Ok.
BatchOfTwoOk == batch.status = "ok" /\ ntracks = 2

\* C6: whenever the phase cell's lock is free, a set stop flag means the
\* cell holds Downloaded; a set flag is never reset.
StopFlagWithDownloaded ==
    /\ [](\A t \in Tracks :
            (msgLock[t] = "free" /\ stop_flag[t]) => message[t] = Downloaded)
    /\ [][\A t \in Tracks : stop_flag[t] => stop_flag'[t]]_vars

\* A stop flag was set and its poller saw it.
StopFlagSeen == \E t \in Batch : stop_flag[t] /\ ppc[t] = "exited"

\* C7: when a pipeline has completed and its poller has exited, the last
\* message the poller published carries Downloaded or Writing (on the runs
\* whose messages are all recorded).
LastMessageNearTerminal ==
    \A t \in Batch :
        (pc[t] = "done" /\ ppc[t] = "exited" /\ Sent < MaxPub) =>
            /\ published[t] # <<>>
            /\ published[t][Len(published[t])] \in {"Downloaded", "Writing"}

\* C8: when the sink channel closes without a Finished event, the pipeline
\* does not encode, does not write a file and never reaches Downloaded.
ClosedSinkFails ==
    \A t \in Batch :
        sinkEnd[t] = "closed" =>
            /\ pc[t] \notin {"wr_store", "write_to_file", "fin_lock_msg",
                             "fin_lock_stop", "done"}
            /\ message[t].phase \notin {"Writing", "Downloaded"}

\* C9: the last component of the output path is the whole sanitized file
\* name, then '.', then the format's extension.
FileNameKept ==
    path # <<>> => path[Len(path)] = file_name \o <<".">> \o Extension(format)

\* C10 as stated: a track with a playlist is placed in
\* destination/<playlist display name>, one with only an album in
\* destination/<album name>, one with neither in destination.
DirectoryIsDisplayName ==
    path # <<>> =>
        /\ path[1] = Destination
        /\ track.playlist.some => Len(path) = 3 /\ path[2] = track.playlist.name
        /\ (~track.playlist.some /\ track.album.some) =>
               Len(path) = 3 /\ path[2] = track.album.name
        /\ (~track.playlist.some /\ ~track.album.some) => Len(path) = 2

Allowed(c) ==
    c \notin InvalidChars \cup ControlChars \cup (IF windows THEN NonAsciiChars ELSE {})

Sanitized(s) == SelectSeq(s, Allowed)

FirstThreeAndOthers(names) ==
    IF Len(names) > 3
    THEN names[1] \o CommaSpace \o names[2] \o CommaSpace \o names[3]
             \o CommaSpace \o AndOthers
    ELSE Join(names, CommaSpace)

\* C10 as amended: a track with a playlist is placed in the directory
\* destination/<sanitized "<creator> - <playlist name> - <playlist id>">,
\* one with only an album in destination/<sanitized "<album artists> -
\* <album name> - <album id>">, one with neither in destination.
DirectoryIsComposedName ==
    path # <<>> =>
        /\ path[1] = Destination
        /\ track.playlist.some =>
               /\ Len(path) = 3
               /\ path[2] = Sanitized(track.playlist.user) \o Dash
                                \o Sanitized(track.playlist.name) \o Dash
                                \o Sanitized(track.playlist.id)
        /\ (~track.playlist.some /\ track.album.some) =>
               /\ Len(path) = 3
               /\ path[2] = Sanitized(FirstThreeAndOthers(track.album.artists)) \o Dash
                                \o Sanitized(track.album.name) \o Dash
                                \o Sanitized(track.album.id)
        /\ (~track.playlist.some /\ ~track.album.some) => Len(path) = 2

\* The path of a track of the playlist "My Mix" that also has an album.
PlaylistMyMixPath ==
    /\ path # <<>>
    /\ track.playlist.some
    /\ track.playlist.name = <<"M", "y", " ", "M", "i", "x">>
    /\ track.album.some

\* C11: clean_file_name is idempotent: for every string over the alphabet
\* (forbidden, control, ASCII and non-ASCII characters), cleaning the cleaned
\* string gives the cleaned string again, and the cleaned string holds no
\* forbidden and no control character.
CleanIdempotent ==
    /\ once # None =>
           \A i \in 1..Len(once.value) :
               once.value[i] \notin InvalidChars \cup ControlChars
    /\ twice # None => twice.value = once.value

\* A string that loses a forbidden and a control character, and keeps one.
CleanedTwice ==
    /\ twice # None
    /\ once.value # <<>>
    /\ \E i, j \in 1..Len(raw) : raw[i] \in InvalidChars /\ raw[j] \in ControlChars

\* C12: get_file_name returns the sanitized form of: all artists joined by
\* ", " then " - <title> - <id>" when there are at most 3 artists; the first
\* 3 artists joined by ", " then ", and others - <title> - <id>" when there
\* are more.
FileNameComposed ==
    path # <<>> =>
        LET artists == track.metadata.artists
            rest == Dash \o track.metadata.track_name \o Dash \o track.id
        IN /\ Len(artists) <= 3 =>
                  file_name = Sanitized(Join(artists, CommaSpace) \o rest)
           /\ Len(artists) > 3 =>
                  file_name = Sanitized(artists[1] \o CommaSpace \o artists[2]
                                            \o CommaSpace \o artists[3]
                                            \o <<",", " ", "a", "n", "d", " ">>
                                            \o <<"o", "t", "h", "e", "r", "s">>
                                            \o rest)

\* Artists [A, B, C, D], title T, id xyz: "A, B, C, and others - T - xyz".
FourArtistsName ==
    /\ path # <<>>
    /\ track.metadata.artists = << <<"A">>, <<"B">>, <<"C">>, <<"D">> >>
    /\ track.metadata.track_name = <<"T">>
    /\ track.id = <<"x", "y", "z">>
    /\ file_name = <<"A", ",", " ", "B", ",", " ", "C", ",", " ", "a", "n", "d", " ",
                     "o", "t", "h", "e", "r", "s", " ", "-", " ", "T", " ", "-", " ",
                     "x", "y", "z">>

\* C13: once the pipeline of a track has set the stop flag, the track's poller
\* eventually exits, and a poller that is past its send when the flag is set
\* never sends again (so at most one more message is published).
PollerExitsAfterStop ==
    /\ \A t \in Tracks : stop_flag[t] ~> (ppc[t] = "exited")
    /\ [][\A t \in Tracks :
              (stop_flag[t] /\ ppc[t] # "publish") => ppc'[t] # "publish"]_vars

\* A poller has seen the stop flag of its downloaded track and has exited.
PollerExited ==
    \E t \in Tracks : pc[t] = "done" /\ stop_flag[t] /\ ppc[t] = "exited"

\* C14: the poller of a pipeline that stopped without reaching Downloaded
\* (it returned an error or was dropped) eventually exits.
PollerOfStoppedPipelineExits ==
    \A t \in Tracks :
        (pc[t] \in {"failed", "dropped"}) ~> (ppc[t] \in {"none", "exited"})

\* C20: the DownloadState lock, the phase-cell lock and the stop-flag lock
\* never deadlock: a pipeline that waits for one of them (at the sender
\* clone, at a store into the phase cell, or in its finish block, where it
\* holds the phase-cell lock and waits for the stop-flag lock) and a poller
\* that waits for the phase-cell lock or the stop-flag lock eventually gets it.
LockWaitersAcquire ==
    \A t \in Tracks :
        /\ \A at \in {"spawn", "dl_store", "enc_store", "wr_store",
                      "fin_lock_msg", "fin_lock_stop"} :
               (pc[t] = at) ~> (pc[t] # at)
        /\ \A at \in {"publish", "lock_stop"} :
               (ppc[t] = at) ~> (ppc[t] # at)

\* A pipeline holds its phase-cell lock and waits for the stop-flag lock,
\* which its poller holds, while a websocket client holds the DownloadState.
FinishWaitsForPoller ==
    \E t \in Tracks :
        /\ pc[t] = "fin_lock_stop"
        /\ msgLock[t] = "pipeline"
        /\ stopLock[t] = "poller"
        /\ stateLock = "socket"

\* C16 as stated: when a pipeline's error makes download_tracks return, the
\* other pipelines in flight at that moment are not cancelled: they are
\* still in flight, where they were.
InFlightSurvivesError ==
    [][(batch.status = "running" /\ batch'.status = "err") =>
           \A t \in InFlight : t # batch'.by => pc'[t] = pc[t]]_vars

\* C16 as amended: when a pipeline's error makes download_tracks return, the
\* pipelines in flight at that moment are dropped with the stream: after the
\* return no pipeline is in flight, and no pipeline advances, changes its
\* phase cell, appends samples or sets its stop flag.
InFlightDroppedOnError ==
    /\ [](batch.status = "err" => InFlight = {})
    /\ [][batch.status = "err" =>
              /\ pc' = pc
              /\ message' = message
              /\ samples' = samples
              /\ stop_flag' = stop_flag]_vars

\* A pipeline that had reached Writing was dropped by the other track's error.
DroppedWhileWriting ==
    \E t \in Batch :
        /\ batch.status = "err"
        /\ batch.by # t
        /\ pc[t] = "dropped"
        /\ message[t] = Writing

\* C17: a failed metadata lookup is returned as an Err of the pipeline and
\* becomes the batch error; no lookup failure panics.
LookupFailureIsErr ==
    /\ batch.status # "panic"
    /\ \A t \in Tracks : pc[t] # "panicked"

\* C18: the scheduler never reaches a state with queued tracks, no pipeline
\* in flight and no admission possible (from which download_tracks cannot
\* return), for any track list and any options.parallel, 0 included.
SchedulerNeverStuck ==
    ~(/\ batch.status = "running"
      /\ Queued # {}
      /\ InFlight = {}
      /\ ~CanAdmit)

\* The events up to the first Finished, and their chunks in order.
BeforeFinished(events) ==
    LET ends == {i \in 1..Len(events) : events[i].type = "Finished"}
    IN IF ends = {} THEN events
       ELSE SubSeq(events, 1, (CHOOSE i \in ends : \A j \in ends : i <= j) - 1)

RECURSIVE Chunks(_)
Chunks(events) ==
    IF events = <<>> THEN <<>> ELSE Head(events).content \o Chunks(Tail(events))

\* C15: the samples handed to the encoder are the chunks of the Write events
\* that arrived before the first Finished event, concatenated in arrival
\* order; events after it add nothing. While the loop runs, the buffer is
\* the concatenation of the chunks received so far.
BufferIsArrivedChunks ==
    /\ handed # None => handed.value = Chunks(BeforeFinished(arrived))
    /\ loopPc = "recv" =>
           buffer = Chunks(SubSeq(arrived, 1, Len(arrived) - Len(channel)))

\* Two chunks, Finished, and a chunk queued behind it: the encoder gets the
\* first two chunks.
TwoChunksThenFinished ==
    /\ arrived = <<Write(1, <<1>>), Write(3, <<2, 3>>), Finished, Write(1, <<1>>)>>
    /\ handed # None
    /\ handed.value = <<1, 2, 3>>
    /\ channel = <<Write(1, <<1>>)>>

\* C19: a server has shut down only if a download_tracks call that started
\* after the server was created has finished successfully, and there are
\* at most as many shutdowns as successful calls.
ShutdownOnlyByOwnBatch ==
    /\ \A s \in Servers :
           server[s] = "shutdown" =>
               \E b \in Calls : call[b] = "ok" /\ s \in seen[b]
    /\ Cardinality({s \in Servers : server[s] = "shutdown"})
           <= Cardinality({b \in Calls : call[b] = "ok"})

====
